---- MODULE Spec2Model ----
(***************************************************************************)
(* Model of the meandra workflow engine: the orchestration loop            *)
(* (SchedulingOrchestrator.execute_workflow with MockScheduler,            *)
(* MockStateTracker, MockIOHandler, Node) and the parameter system         *)
(* (Param, SweepParam, ParameterSet).                                      *)
(***************************************************************************)
EXTENDS Integers, Sequences, FiniteSets, TLC

(***************************************************************************)
(* Bounds of the model.                                                    *)
(***************************************************************************)
\* Largest number of entries in one Node's dependencies list.
MaxDeps == 1
\* Largest number of execute_workflow calls on one tracker.
MaxRuns == 2

\* The Node objects that exist, by identity (id(node)); each has its own name.
Nodes == {"A", "B", "C"}

\* The states a caller may hand to update_state: the two the source names
\* ("not_started", "completed") and the two others of the design. The tracker
\* stores whatever it is given.
ExecutionStates == {"not_started", "running", "completed", "failed"}

\* Python's None, apart from every value of the model (values are naturals).
None == -1

Range(s) == {s[k] : k \in 1..Len(s)}

VARIABLES
    dependencies,     \* Node.dependencies of every Node object (a set per node)
    nodes,            \* Workflow.nodes: the registration order
    states,           \* MockStateTracker.states: dict node id -> state
    result,           \* Node.result of every Node object
    pc,               \* position of the execute_workflow call
    execution_order,  \* local of execute_workflow
    idx,              \* position of the for loop in execution_order (1-based)
    invoked,          \* nodes whose execute() was called in the current run, in order
    ret,              \* what the last finished execute_workflow call returned
    outcomes          \* how each earlier execute_workflow call ended

\* The parameter system: Param objects live on a heap and are shared by reference.
VARIABLES
    heap,             \* the Param / SweepParam objects, by address 1..Len(heap)
    psets,            \* the ParameterSet objects, by the program variable that holds them
    last              \* the last ParameterSet operation, its arguments and outcome

ovars == <<dependencies, nodes, states, result, pc, execution_order, idx,
           invoked, ret, outcomes>>

pvars == <<heap, psets, last>>

vars == <<dependencies, nodes, states, result, pc, execution_order, idx,
          invoked, ret, outcomes, heap, psets, last>>

(***************************************************************************)
(* MockStateTracker                                                        *)
(***************************************************************************)
\* self.states.get(node_id, "not_started")
get_state(st, node_id) ==
    IF node_id \in DOMAIN st THEN st[node_id] ELSE "not_started"

\* A tracker that keeps the first state written for an id.
update_state_first_write(st, node_id, state) ==
    [x \in (DOMAIN st) \cup {node_id} |-> IF x \in DOMAIN st THEN st[x] ELSE state]

\* self.states[node_id] = state
update_state(st, node_id, state) ==
    [x \in (DOMAIN st) \cup {node_id} |-> IF x = node_id THEN state ELSE st[x]]

(***************************************************************************)
(* MockScheduler                                                           *)
(***************************************************************************)
\* return workflow.nodes
resolve_dependencies(workflow_nodes) == workflow_nodes

(***************************************************************************)
(* MockIOHandler and Node                                                  *)
(***************************************************************************)
\* MockIOHandler.load: return "mock_data"
load(path) == "mock_data"

\* What the callable of node n returns when it does not raise.
func(n, inputs) == <<"out", n, inputs>>

\* A guard that runs only the nodes never started (a failed node is not retried).
must_execute_only_fresh(st, node_id) == get_state(st, node_id) = "not_started"

\* The guard of the loop body of execute_workflow.
must_execute(st, node_id) == get_state(st, node_id) /= "completed"

(***************************************************************************)
(* Construction                                                            *)
(***************************************************************************)
DepGraphs ==
    {d \in [Nodes -> SUBSET Nodes] : \A n \in Nodes : Cardinality(d[n]) <= MaxDeps}

Init ==
    /\ dependencies \in DepGraphs
    /\ nodes = <<>>
    /\ states = <<>>
    /\ result = [n \in Nodes |-> None]
    /\ pc = "idle"
    /\ execution_order = <<>>
    /\ idx = 0
    /\ invoked = <<>>
    /\ ret = [kind |-> "pending"]
    /\ outcomes = <<>>
    /\ heap = <<>>
    /\ psets = <<>>
    /\ last = [op |-> "none"]

(***************************************************************************)
(* Workflow.add_node and the caller's pre-seeding of the tracker           *)
(***************************************************************************)
add_node(n) ==
    /\ pc = "idle"
    /\ n \notin Range(nodes)
    /\ nodes' = Append(nodes, n)
    /\ UNCHANGED <<dependencies, states, result, pc, execution_order, idx,
                   invoked, ret, outcomes>>
    /\ UNCHANGED pvars

\* A call of state_tracker.update_state by the program that owns the tracker.
UpdateState(n, s) ==
    /\ pc = "idle"
    /\ states' = update_state(states, n, s)
    /\ UNCHANGED <<dependencies, nodes, result, pc, execution_order, idx,
                   invoked, ret, outcomes>>
    /\ UNCHANGED pvars

(***************************************************************************)
(* SchedulingOrchestrator.execute_workflow, one action per step            *)
(***************************************************************************)
\* The call begins: execution_order = self.scheduler.resolve_dependencies(workflow)
ExecuteBegin ==
    /\ pc \in {"idle", "done", "raised"}
    /\ Len(outcomes) + (IF pc = "idle" THEN 0 ELSE 1) < MaxRuns
    /\ outcomes' = IF pc = "idle" THEN outcomes ELSE Append(outcomes, pc)
    /\ execution_order' = resolve_dependencies(nodes)
    /\ idx' = 1
    /\ invoked' = <<>>
    /\ ret' = [kind |-> "pending"]
    /\ pc' = "loop"
    /\ UNCHANGED <<dependencies, nodes, states, result>>
    /\ UNCHANGED pvars

\* The loop reaches a node whose state is "completed": the body is skipped.
SkipNode ==
    /\ pc = "loop"
    /\ idx <= Len(execution_order)
    /\ ~must_execute(states, execution_order[idx])
    /\ idx' = idx + 1
    /\ UNCHANGED <<dependencies, nodes, states, result, pc, execution_order,
                   invoked, ret, outcomes>>
    /\ UNCHANGED pvars

\* The loop reaches a node to execute: inputs are loaded and node.execute is entered.
CallNode ==
    /\ pc = "loop"
    /\ idx <= Len(execution_order)
    /\ must_execute(states, execution_order[idx])
    /\ invoked' = Append(invoked, execution_order[idx])
    /\ pc' = "call"
    /\ UNCHANGED <<dependencies, nodes, states, result, execution_order, idx,
                   ret, outcomes>>
    /\ UNCHANGED pvars

\* node.func returns: Node.execute stores the result, the output is saved
\* (MockIOHandler.save only prints, it keeps nothing) and the node is marked
\* "completed".
NodeReturn ==
    /\ pc = "call"
    /\ LET node == execution_order[idx]
           outputs == func(node, load("input_path_placeholder"))
       IN /\ result' = [result EXCEPT ![node] = outputs]
          /\ states' = update_state(states, node, "completed")
    /\ idx' = idx + 1
    /\ pc' = "loop"
    /\ UNCHANGED <<dependencies, nodes, execution_order, invoked, ret, outcomes>>
    /\ UNCHANGED pvars

\* node.func raises: nothing catches it, the exception leaves execute_workflow.
NodeRaise ==
    /\ pc = "call"
    /\ pc' = "raised"
    /\ ret' = [kind |-> "exception"]
    /\ UNCHANGED <<dependencies, nodes, states, result, execution_order, idx,
                   invoked, outcomes>>
    /\ UNCHANGED pvars

\* The loop is exhausted: the function ends without a return statement.
ExecuteEnd ==
    /\ pc = "loop"
    /\ idx > Len(execution_order)
    /\ pc' = "done"
    /\ ret' = [kind |-> "none"]
    /\ UNCHANGED <<dependencies, nodes, states, result, execution_order, idx,
                   invoked, outcomes>>
    /\ UNCHANGED pvars

Next ==
    \/ \E n \in Nodes : add_node(n)
    \/ \E n \in Nodes, s \in ExecutionStates : UpdateState(n, s)
    \/ ExecuteBegin
    \/ SkipNode
    \/ CallNode
    \/ NodeReturn
    \/ NodeRaise
    \/ ExecuteEnd

Spec == Init /\ [][Next]_vars

(***************************************************************************)
(* Param (parameters.py). Values are naturals; param_type, regex, options  *)
(* and predicate validators are left unset on every Param of the model.    *)
(***************************************************************************)
\* Largest number of Param objects on the heap.
MaxParams == 2
\* The values parameters take (None apart); 0 is falsy, 1 is truthy.
Values == {0, 1}

\* Parameter names, in the order in which a candidates dict lists them.
Keys == <<"a", "b">>

\* Param.__init__
Param(default, gt, ge, lt, le, strict) ==
    [kind |-> "Param", value |-> None, default |-> default,
     gt |-> gt, ge |-> ge, lt |-> lt, le |-> le,
     strict |-> strict, values |-> <<>>]

\* SweepParam.__init__(values, **kwargs)
SweepParam(values, default, strict) ==
    [Param(default, None, None, None, None, strict) EXCEPT
        !.kind = "SweepParam", !.values = values]

\* A validate that reads the bound ge as exclusive.
validate_ge_exclusive(p, v) ==
    IF p.gt /= None /\ v = None THEN "TypeError"
    ELSE IF p.gt /= None /\ ~(v > p.gt) THEN "ValueError_gt"
    ELSE IF p.ge /= None /\ v = None THEN "TypeError"
    ELSE IF p.ge /= None /\ ~(v > p.ge) THEN "ValueError_ge"
    ELSE IF p.lt /= None /\ v = None THEN "TypeError"
    ELSE IF p.lt /= None /\ ~(v < p.lt) THEN "ValueError_lt"
    ELSE IF p.le /= None /\ v = None THEN "TypeError"
    ELSE IF p.le /= None /\ ~(v <= p.le) THEN "ValueError_le"
    ELSE "ok"

\* Param.validate: "ok" for True, else the exception raised. Comparing None
\* with a number raises TypeError in Python.
validate(p, v) ==
    IF p.gt /= None /\ v = None THEN "TypeError"
    ELSE IF p.gt /= None /\ ~(v > p.gt) THEN "ValueError_gt"
    ELSE IF p.ge /= None /\ v = None THEN "TypeError"
    ELSE IF p.ge /= None /\ ~(v >= p.ge) THEN "ValueError_ge"
    ELSE IF p.lt /= None /\ v = None THEN "TypeError"
    ELSE IF p.lt /= None /\ ~(v < p.lt) THEN "ValueError_lt"
    ELSE IF p.le /= None /\ v = None THEN "TypeError"
    ELSE IF p.le /= None /\ ~(v <= p.le) THEN "ValueError_le"
    ELSE "ok"

\* A set_value that stores the candidate without validating it.
set_value_unchecked(p, v) == [param |-> [p EXCEPT !.value = v], err |-> "ok"]

\* Param.set_value: the Param after the call and the exception raised, if any.
set_value(p, v) ==
    IF p.strict /\ validate(p, v) /= "ok"
    THEN [param |-> p, err |-> validate(p, v)]
    ELSE [param |-> [p EXCEPT !.value = v], err |-> "ok"]

\* Param.get_value
get_value(p) == IF p.value /= None THEN p.value ELSE p.default

\* SweepParam.get_values
get_values(p) == p.values

(***************************************************************************)
(* ParameterSet (parameters.py). A set is a record: its strict flag, its   *)
(* keys in dict order, data (key -> address of a Param on the heap) and    *)
(* its global validators. A candidate is a Param object given by address   *)
(* or a bare value.                                                        *)
(***************************************************************************)
ParamItem(ref) == [isparam |-> TRUE, ref |-> ref]

BareItem(v) == [isparam |-> FALSE, val |-> v]

\* A convert that stores a bare value as it is, an object that is no Param.
convert_unwrapped(h, strict, item) ==
    IF item.isparam
    THEN [heap |-> [h EXCEPT ![item.ref].strict = strict], ref |-> item.ref]
    ELSE [heap |-> Append(h, [Param(None, None, None, None, None, strict)
                                  EXCEPT !.kind = "bare", !.value = item.val]),
          ref |-> Len(h) + 1]

\* ParameterSet.convert: stamps the set's strict flag on a Param object, wraps
\* a bare value in a new Param.
convert(h, strict, item) ==
    IF item.isparam
    THEN [heap |-> [h EXCEPT ![item.ref].strict = strict], ref |-> item.ref]
    ELSE [heap |-> Append(h, Param(item.val, None, None, None, None, strict)),
          ref |-> Len(h) + 1]

RECURSIVE init_update(_, _, _, _, _)
\* self.data.update({k: self.convert(v) for k, v in candidates.items()})
init_update(h, strict, order, candidates, data) ==
    IF order = <<>> THEN [heap |-> h, data |-> data]
    ELSE LET k == Head(order)
             c == convert(h, strict, candidates[k])
         IN init_update(c.heap, strict, Tail(order), candidates, (k :> c.ref) @@ data)

\* ParameterSet.__init__(candidates, strict=strict)
ParameterSet(h, strict, order, candidates) ==
    LET r == init_update(h, strict, order, candidates, <<>>)
    IN [heap |-> r.heap,
        set |-> [strict |-> strict, keys |-> order, data |-> r.data,
                 global_validators |-> <<>>]]

\* merged.data[key] = value (a dict keeps the position of a key it already holds)
set_data(set, key, ref) ==
    [set EXCEPT !.keys = IF key \in DOMAIN set.data THEN @ ELSE Append(@, key),
                !.data = (key :> ref) @@ set.data]

\* A condition that replaces the entry whatever override says.
merge_takes_always(key, merged_data, override) == TRUE

\* The condition of merge's loop body: key not in merged.data or override
merge_takes(key, merged_data, override) ==
    key \notin DOMAIN merged_data \/ override

RECURSIVE merge_loop(_, _, _, _)
\* for key, value in other.data.items(): ...
merge_loop(merged, okeys, odata, override) ==
    IF okeys = <<>> THEN merged
    ELSE LET k == Head(okeys)
         IN merge_loop(IF merge_takes(k, merged.data, override)
                       THEN set_data(merged, k, odata[k])
                       ELSE merged,
                       Tail(okeys), odata, override)

\* ParameterSet.merge: merged = ParameterSet(self.data.copy()) takes the default
\* strict=True and converts every Param of the receiver.
merge(h, self, other, override) ==
    LET c == ParameterSet(h, TRUE, self.keys,
                          [k \in DOMAIN self.data |-> ParamItem(self.data[k])])
    IN [heap |-> c.heap,
        set |-> merge_loop(c.set, other.keys, other.data, override)]

\* `key in config.values` for a dict config: config.values is the bound method
\* dict.values, which is not iterable, so the membership test raises TypeError.
in_config_values(key, config) == "TypeError"

\* config.get(key)
config_get(config, key) == IF key \in DOMAIN config THEN config[key] ELSE None

RECURSIVE apply_loop(_, _, _, _)
\* for key, param in self.data.items(): if key in config.values: param.set_value(...)
apply_loop(h, set, order, config) ==
    IF order = <<>> THEN [heap |-> h, err |-> "ok"]
    ELSE LET k == Head(order)
             t == in_config_values(k, config)
             r == set_value(h[set.data[k]], config_get(config, k))
         IN IF t = "TypeError" THEN [heap |-> h, err |-> "TypeError"]
            ELSE IF t = "True"
                 THEN IF r.err /= "ok" THEN [heap |-> h, err |-> r.err]
                      ELSE apply_loop([h EXCEPT ![set.data[k]] = r.param],
                                      set, Tail(order), config)
                 ELSE apply_loop(h, set, Tail(order), config)

\* ParameterSet.apply_config
apply_config(h, set, config) == apply_loop(h, set, set.keys, config)

(***************************************************************************)
(* The parameter system as a state machine: Param objects and              *)
(* ParameterSets are constructed, merged and configured.                   *)
(***************************************************************************)
KeySet == Range(Keys)

\* The keys of K in the order of Keys.
Ordered(K) == SelectSeq(Keys, LAMBDA k : k \in K)

Candidates(h) ==
    UNION {[K -> {ParamItem(i) : i \in 1..Len(h)} \cup {BareItem(v) : v \in Values}]
           : K \in SUBSET KeySet}

\* A config names the parameter "a" and a key "zz" that no set holds.
Configs == UNION {[K -> Values] : K \in SUBSET {"a", "zz"}}

InitOrchestratorIdle ==
    /\ dependencies = [n \in Nodes |-> {}]
    /\ nodes = <<>>
    /\ states = <<>>
    /\ result = [n \in Nodes |-> None]
    /\ pc = "idle"
    /\ execution_order = <<>>
    /\ idx = 0
    /\ invoked = <<>>
    /\ ret = [kind |-> "pending"]
    /\ outcomes = <<>>

InitParams ==
    /\ InitOrchestratorIdle
    /\ heap = <<>>
    /\ psets = <<>>
    /\ last = [op |-> "none"]

\* p = Param(default=default, strict=strict)
NewParam(default, strict) ==
    /\ Len(heap) < MaxParams
    /\ heap' = Append(heap, Param(default, None, None, None, None, strict))
    /\ last' = [op |-> "other"]
    /\ UNCHANGED psets
    /\ UNCHANGED ovars

\* The program's variable `name` = ParameterSet(candidates, strict=strict)
NewParameterSet(name, strict, candidates) ==
    /\ name \notin DOMAIN psets
    /\ LET r == ParameterSet(heap, strict, Ordered(DOMAIN candidates), candidates)
       IN /\ Len(r.heap) <= MaxParams
          /\ heap' = r.heap
          /\ psets' = (name :> r.set) @@ psets
    /\ last' = [op |-> "other"]
    /\ UNCHANGED ovars

\* merged = receiver.merge(other, override)
Merge(override) ==
    /\ {"receiver", "other"} \subseteq DOMAIN psets
    /\ "merged" \notin DOMAIN psets
    /\ LET r == merge(heap, psets["receiver"], psets["other"], override)
       IN /\ heap' = r.heap
          /\ psets' = ("merged" :> r.set) @@ psets
    /\ last' = [op |-> "merge", override |-> override]
    /\ UNCHANGED ovars

\* receiver.apply_config(config)
ApplyConfig(config) ==
    /\ "receiver" \in DOMAIN psets
    /\ LET r == apply_config(heap, psets["receiver"], config)
       IN /\ heap' = r.heap
          /\ last' = [op |-> "apply_config", config |-> config, err |-> r.err]
    /\ UNCHANGED psets
    /\ UNCHANGED ovars

NextParams ==
    \/ \E d \in Values, strict \in BOOLEAN : NewParam(d, strict)
    \/ \E name \in {"receiver", "other"}, strict \in BOOLEAN :
           \E c \in Candidates(heap) : NewParameterSet(name, strict, c)
    \/ \E ov \in BOOLEAN : Merge(ov)
    \/ \E c \in Configs : ApplyConfig(c)

SpecParams == InitParams /\ [][NextParams]_vars

(***************************************************************************)
(* ParameterSet.generate_sweep_grid                                        *)
(***************************************************************************)
\* Largest number of candidate values of one SweepParam.
MaxCand == 2

\* The keys of sweep_params, in dict order.
sweep_keys(h, set) ==
    SelectSeq(set.keys, LAMBDA k : h[set.data[k]].kind = "SweepParam")

\* The values of sweep_params, in dict order.
sweep_values(h, set) ==
    LET ks == sweep_keys(h, set)
    IN [i \in 1..Len(ks) |-> get_values(h[set.data[ks[i]]])]

\* A static_params that copies the defaults and overlooks the values set.
static_params_default(h, set) ==
    [k \in {x \in DOMAIN set.data : h[set.data[x]].kind /= "SweepParam"}
        |-> h[set.data[k]].default]

\* static_params = {k: v.get_value() for ... if not isinstance(v, SweepParam)}
static_params(h, set) ==
    [k \in {x \in DOMAIN set.data : h[set.data[x]].kind /= "SweepParam"}
        |-> get_value(h[set.data[k]])]

RECURSIVE prepend_all(_, _)
\* (x,) + rest for every rest, in order.
prepend_all(x, rests) ==
    IF rests = <<>> THEN <<>>
    ELSE << <<x>> \o Head(rests) >> \o prepend_all(x, Tail(rests))

RECURSIVE product_rows(_, _)
\* for x in first: for rest in product(others): yield (x,) + rest
product_rows(first, rests) ==
    IF first = <<>> THEN <<>>
    ELSE prepend_all(Head(first), rests) \o product_rows(Tail(first), rests)

RECURSIVE product(_)
\* itertools.product(*seqs): the last sequence varies fastest.
product(seqs) ==
    IF seqs = <<>> THEN << <<>> >>
    ELSE product_rows(Head(seqs), product(Tail(seqs)))

\* dict(zip(keys, combination)); a later pair wins over an earlier one.
zip_dict(keys, combination) ==
    [k \in Range(keys) |->
        combination[CHOOSE i \in 1..Len(keys) :
                        keys[i] = k /\ \A j \in (i + 1)..Len(keys) : keys[j] /= k]]

\* ParameterSet.generate_sweep_grid: with no SweepParam, the unpacking
\* sweep_keys, sweep_values = zip(*{}.items()) raises ValueError.
generate_sweep_grid(h, set) ==
    LET ks == sweep_keys(h, set)
        combinations == product(sweep_values(h, set))
    IN IF ks = <<>> THEN [err |-> "ValueError", grid |-> <<>>]
       ELSE [err |-> "ok",
             grid |-> [t \in 1..Len(combinations) |->
                          zip_dict(ks, combinations[t]) @@ static_params(h, set)]]

(***************************************************************************)
(* Sweeps as a state machine: one ParameterSet `params` is constructed     *)
(* from Params, bare values and SweepParams; values are set; the grid is   *)
(* generated.                                                              *)
(***************************************************************************)
SweepNames == {"a", "b", "c"}

\* All orders in which a candidates dict can list the keys K.
Orders(K) ==
    {s \in [1..Cardinality(K) -> K] : \A i, j \in 1..Cardinality(K) : s[i] = s[j] => i = j}

CandidateSeqs == UNION {[1..n -> Values] : n \in 0..MaxCand}

\* What the caller passes under one key.
SweepChoices ==
    {[t |-> "sweep", values |-> vs] : vs \in CandidateSeqs}
        \cup {[t |-> "bare", val |-> v] : v \in Values}
        \cup {[t |-> "param"]}

RECURSIVE make_candidates(_, _, _, _)
\* The objects the caller constructs, and the candidates dict naming them.
make_candidates(order, choice, h, cand) ==
    IF order = <<>> THEN [heap |-> h, cand |-> cand]
    ELSE LET k == Head(order)
             c == choice[k]
         IN IF c.t = "bare"
            THEN make_candidates(Tail(order), choice, h, (k :> BareItem(c.val)) @@ cand)
            ELSE make_candidates(Tail(order), choice,
                     Append(h, IF c.t = "sweep" THEN SweepParam(c.values, None, TRUE)
                               ELSE Param(None, None, None, None, None, TRUE)),
                     (k :> ParamItem(Len(h) + 1)) @@ cand)

InitSweep ==
    /\ InitOrchestratorIdle
    /\ \E K \in SUBSET SweepNames :
         \E order \in Orders(K), choice \in [K -> SweepChoices] :
            LET c == make_candidates(order, choice, <<>>, <<>>)
                r == ParameterSet(c.heap, TRUE, order, c.cand)
            IN /\ heap = r.heap
               /\ psets = [params |-> r.set]
    /\ last = [op |-> "none"]

\* params[k].set_value(v) on a Param that is not a SweepParam
SetValue(k, v) ==
    /\ k \in DOMAIN psets["params"].data
    /\ heap[psets["params"].data[k]].kind = "Param"
    /\ LET ref == psets["params"].data[k]
           r == set_value(heap[ref], v)
       IN heap' = [heap EXCEPT ![ref] = r.param]
    /\ last' = [op |-> "other"]
    /\ UNCHANGED psets
    /\ UNCHANGED ovars

\* params.generate_sweep_grid()
GenerateSweepGrid ==
    /\ LET r == generate_sweep_grid(heap, psets["params"])
       IN last' = [op |-> "generate_sweep_grid", err |-> r.err, grid |-> r.grid]
    /\ UNCHANGED <<heap, psets>>
    /\ UNCHANGED ovars

NextSweep ==
    \/ \E k \in SweepNames, v \in Values : SetValue(k, v)
    \/ GenerateSweepGrid

SpecSweep == InitSweep /\ [][NextSweep]_vars

(***************************************************************************)
(* Nested ParameterSets and ParameterSet.__getattr__. Here psets is the    *)
(* sequence of the ParameterSet objects constructed so far; a set object   *)
(* handed over as a value is its address, a number below None.             *)
(***************************************************************************)
\* Largest number of ParameterSet objects, and so the deepest nesting.
MaxSets == 2

\* The address of the i-th ParameterSet object, as a value a Param can hold.
SetRef(i) == None - i

\* isinstance(v, ParameterSet)
IsSetRef(v) == v < None

SetIndex(v) == None - v

\* Parameter names of the nested sets.
PathKeys == {"model", "layers", "hidden_units"}

\* The segments name.split(".") can yield: the parameter names and a name no
\* set holds.
Segments == PathKeys \cup {"missing"}

\* ParameterSet.__getattr__(name), keys = name.split("."). Every entry of data
\* is a Param (convert wraps whatever it is given), so the first key found
\* returns obj.get_value(); a key not found delegates to
\* super().__getattr__, which does not exist: AttributeError.
getattr(h, self, keys) ==
    LET key == Head(keys)
    IN IF key \in DOMAIN self.data
       THEN [err |-> "ok", val |-> get_value(h[self.data[key]])]
       ELSE [err |-> "AttributeError", val |-> None]

\* The candidates dicts of one entry, as in ParameterSet(layers=...): a Param
\* object, a bare value or a ParameterSet object constructed before.
NestedCandidates(h, sets) ==
    UNION {[{k} -> {ParamItem(i) : i \in 1..Len(h)}
                      \cup {BareItem(v) : v \in Values}
                      \cup {BareItem(SetRef(i)) : i \in 1..Len(sets)}]
           : k \in PathKeys}

\* The dotted names, split: as many segments as sets can be nested.
Paths == UNION {[1..n -> Segments] : n \in 1..MaxSets}

InitNested ==
    /\ InitOrchestratorIdle
    /\ heap = <<>>
    /\ psets = <<>>
    /\ last = [op |-> "none"]

\* p = Param(default=default)
NewLeafParam(default) ==
    /\ Len(heap) < MaxParams
    /\ heap' = Append(heap, Param(default, None, None, None, None, TRUE))
    /\ last' = [op |-> "other"]
    /\ UNCHANGED psets
    /\ UNCHANGED ovars

\* ParameterSet(**candidates), with the keywords in any order
NewNestedSet(order, candidates) ==
    /\ Len(psets) < MaxSets
    /\ LET r == ParameterSet(heap, TRUE, order, candidates)
       IN /\ Len(r.heap) <= MaxParams
          /\ heap' = r.heap
          /\ psets' = Append(psets, r.set)
    /\ last' = [op |-> "other"]
    /\ UNCHANGED ovars

\* getattr(s, name) on the i-th set
GetAttr(i, keys) ==
    /\ i \in 1..Len(psets)
    /\ LET r == getattr(heap, psets[i], keys)
       IN last' = [op |-> "getattr", set |-> i, keys |-> keys,
                   err |-> r.err, val |-> r.val]
    /\ UNCHANGED <<heap, psets>>
    /\ UNCHANGED ovars

NextNested ==
    \/ \E d \in Values : NewLeafParam(d)
    \/ \E c \in NestedCandidates(heap, psets) :
           \E order \in Orders(DOMAIN c) : NewNestedSet(order, c)
    \/ \E i \in 1..MaxSets, keys \in Paths : GetAttr(i, keys)

SpecNested == InitNested /\ [][NextNested]_vars

(***************************************************************************)
(* One Param with numeric bounds: validate and set_value are called on it  *)
(* with every candidate.                                                   *)
(***************************************************************************)
\* Largest number used as a bound gt, ge, lt or le.
MaxBound == 2

\* What a bound can be: unset, or a number.
BoundChoices == {None} \cup 0..MaxBound

\* The candidates handed to validate and set_value: None, and the integers up
\* to one past the largest bound.
ParamCandidates == {None} \cup 0..(MaxBound + 1)

\* heap[1] = Param(gt=gt, ge=ge, lt=lt, le=le, strict=strict)
InitParam ==
    /\ InitOrchestratorIdle
    /\ \E gt \in BoundChoices, ge \in BoundChoices, lt \in BoundChoices,
          le \in BoundChoices, strict \in BOOLEAN :
           heap = <<Param(None, gt, ge, lt, le, strict)>>
    /\ psets = <<>>
    /\ last = [op |-> "none"]

\* p.validate(v)
ParamValidate(v) ==
    /\ last' = [op |-> "validate", value |-> v, res |-> validate(heap[1], v)]
    /\ UNCHANGED <<heap, psets>>
    /\ UNCHANGED ovars

\* p.set_value(v)
ParamSetValue(v) ==
    /\ LET r == set_value(heap[1], v)
       IN /\ heap' = [heap EXCEPT ![1] = r.param]
          /\ last' = [op |-> "set_value", value |-> v, err |-> r.err]
    /\ UNCHANGED psets
    /\ UNCHANGED ovars

NextParam ==
    \/ \E v \in ParamCandidates : ParamValidate(v)
    \/ \E v \in ParamCandidates : ParamSetValue(v)

SpecParam == InitParam /\ [][NextParam]_vars

(***************************************************************************)
(* ParameterSet.validate and add_global_validator. A global validator is a *)
(* caller-supplied predicate over any number of values, with its targets:  *)
(* a list of parameter names, or a dict whose values are parameter names.  *)
(***************************************************************************)
\* Largest number of global validators registered on one set.
MaxValidators == 2

\* The caller's predicates: lambda *xs: all(x == 1 for x in xs) and
\* lambda *xs: len(set(xs)) <= 1 (or their keyword forms).
Predicates == {"all_one", "all_equal"}

\* validator(*values) / validator(**values)
call_validator(validator, values) ==
    IF validator = "all_one" THEN \A i \in 1..Len(values) : values[i] = 1
    ELSE \A i, j \in 1..Len(values) : values[i] = values[j]

\* self.global_validators.append((validator, targets))
add_global_validator(set, validator, targets) ==
    [set EXCEPT !.global_validators =
                    Append(@, [validator |-> validator, targets |-> targets])]

\* The first loop of validate: param.validate(param.get_value()) for every
\* Param, each TypeError or ValueError caught and printed. SweepParam.validate
\* takes no argument, so the call on a SweepParam raises TypeError.
param_reports(h, set) ==
    [i \in 1..Len(set.keys) |->
        LET param == h[set.data[set.keys[i]]]
        IN IF param.kind = "SweepParam" THEN "TypeError"
           ELSE validate(param, get_value(param))]

RECURSIVE global_loop(_, _, _)
\* The second loop of validate: self.data[t] raises KeyError for a target the
\* set does not hold; a false outcome raises ValueError.
global_loop(h, set, gvs) ==
    IF gvs = <<>> THEN "ok"
    ELSE LET names == Head(gvs).targets.names
             values == [i \in 1..Len(names) |-> get_value(h[set.data[names[i]]])]
         IN IF \E i \in 1..Len(names) : names[i] \notin DOMAIN set.data
            THEN "KeyError"
            ELSE IF ~call_validator(Head(gvs).validator, values)
                 THEN "ValueError_global"
                 ELSE global_loop(h, set, Tail(gvs))

\* A validate in which the error of a Param is not caught.
validate_set_uncaught(h, set) ==
    LET reports == param_reports(h, set)
        bad == {i \in 1..Len(reports) : reports[i] /= "ok"}
    IN [reports |-> reports,
        err |-> IF bad /= {} THEN reports[CHOOSE i \in bad : \A j \in bad : i <= j]
                ELSE global_loop(h, set, set.global_validators)]

\* ParameterSet.validate: what was printed for each Param, and the exception
\* that left the call, if any.
validate_set(h, set) ==
    [reports |-> param_reports(h, set),
     err |-> global_loop(h, set, set.global_validators)]

\* What the caller passes under one key of the set.
ValidateChoices ==
    {[t |-> "param", default |-> d, gt |-> g] : d \in Values, g \in {None, 0}}
        \cup {[t |-> "sweep"]}
        \cup {[t |-> "bare", val |-> v] : v \in Values}

RECURSIVE make_objects(_, _, _, _)
\* The objects the caller constructs, and the candidates dict naming them.
make_objects(order, choice, h, cand) ==
    IF order = <<>> THEN [heap |-> h, cand |-> cand]
    ELSE LET k == Head(order)
             c == choice[k]
         IN IF c.t = "bare"
            THEN make_objects(Tail(order), choice, h, (k :> BareItem(c.val)) @@ cand)
            ELSE make_objects(Tail(order), choice,
                     Append(h, IF c.t = "sweep" THEN SweepParam(<<0, 1>>, None, TRUE)
                               ELSE Param(c.default, c.gt, None, None, None, TRUE)),
                     (k :> ParamItem(Len(h) + 1)) @@ cand)

\* The targets of a validator: one or both of the names, as a list or a dict.
TargetChoices ==
    {[type |-> ty, names |-> ns] :
        ty \in {"list", "dict"}, ns \in {<<"a">>, <<"b">>, <<"a", "b">>}}

\* params = ParameterSet({...})
InitValidate ==
    /\ InitOrchestratorIdle
    /\ \E K \in SUBSET KeySet :
         \E choice \in [K -> ValidateChoices] :
            LET c == make_objects(Ordered(K), choice, <<>>, <<>>)
                r == ParameterSet(c.heap, TRUE, Ordered(K), c.cand)
            IN /\ heap = r.heap
               /\ psets = [params |-> r.set]
    /\ last = [op |-> "none"]

\* params.add_global_validator(validator, targets)
AddGlobalValidator(validator, targets) ==
    /\ Len(psets["params"].global_validators) < MaxValidators
    /\ psets' = [psets EXCEPT
                    !["params"] = add_global_validator(@, validator, targets)]
    /\ last' = [op |-> "other"]
    /\ UNCHANGED heap
    /\ UNCHANGED ovars

\* params.validate()
ValidateSet ==
    /\ LET r == validate_set(heap, psets["params"])
       IN last' = [op |-> "validate_set", err |-> r.err, reports |-> r.reports]
    /\ UNCHANGED <<heap, psets>>
    /\ UNCHANGED ovars

NextValidate ==
    \/ \E k \in KeySet, v \in Values : SetValue(k, v)
    \/ \E f \in Predicates, t \in TargetChoices : AddGlobalValidator(f, t)
    \/ ValidateSet

SpecValidate == InitValidate /\ [][NextValidate]_vars

(***************************************************************************)
(* ParameterSet.__setitem__, add, remove and override, and the sets as a   *)
(* state machine under construction, mutation, override and merge. psets   *)
(* holds the program's variables receiver and other; override and merge    *)
(* are called on receiver and their result is assigned to other.           *)
(***************************************************************************)
\* ParameterSet.__setitem__: self.data[key] = self.convert(value)
setitem(h, set, key, value) ==
    LET c == convert(h, set.strict, value)
    IN [heap |-> c.heap, set |-> set_data(set, key, c.ref)]

\* ParameterSet.add: self.data[name] = self.convert(param)
add(h, set, name, param) ==
    LET c == convert(h, set.strict, param)
    IN [heap |-> c.heap, set |-> set_data(set, name, c.ref)]

\* ParameterSet.remove: self.data.pop(name, None)
remove(set, name) ==
    [set EXCEPT !.keys = SelectSeq(@, LAMBDA k : k /= name),
                !.data = [k \in (DOMAIN @) \ {name} |-> @[k]]]

RECURSIVE update(_, _, _, _)
\* UserDict.update(overrides): self[key] = value for every item, in order
update(h, set, order, overrides) ==
    IF order = <<>> THEN [heap |-> h, set |-> set]
    ELSE LET r == setitem(h, set, Head(order), overrides[Head(order)])
         IN update(r.heap, r.set, Tail(order), overrides)

\* ParameterSet.override: new_set = ParameterSet(self.data.copy()) takes the
\* default strict=True; then new_set.update(overrides)
override(h, self, order, overrides) ==
    LET c == ParameterSet(h, TRUE, self.keys,
                          [k \in DOMAIN self.data |-> ParamItem(self.data[k])])
    IN update(c.heap, c.set, order, overrides)

\* The program's two variables that hold a set.
SetNames == {"receiver", "other"}

\* The bare values among the items of a dict, by key.
BareOf(items) == [k \in {x \in DOMAIN items : ~items[x].isparam} |-> items[k].val]

InitOps ==
    /\ InitOrchestratorIdle
    /\ heap = <<>>
    /\ psets = <<>>
    /\ last = [op |-> "none"]

\* p = Param(default=default)
OpsNewParam(default) ==
    /\ Len(heap) < MaxParams
    /\ heap' = Append(heap, Param(default, None, None, None, None, TRUE))
    /\ last' = [op |-> "Param"]
    /\ UNCHANGED psets
    /\ UNCHANGED ovars

\* name = ParameterSet(candidates, strict=strict)
Construct(name, strict, candidates) ==
    /\ name \notin DOMAIN psets
    /\ LET r == ParameterSet(heap, strict, Ordered(DOMAIN candidates), candidates)
       IN /\ Len(r.heap) <= MaxParams
          /\ heap' = r.heap
          /\ psets' = (name :> r.set) @@ psets
    /\ last' = [op |-> "init", set |-> name, bare |-> BareOf(candidates)]
    /\ UNCHANGED ovars

\* receiver[key] = v, v a bare value
SetItem(name, key, v) ==
    /\ name \in DOMAIN psets
    /\ LET r == setitem(heap, psets[name], key, BareItem(v))
       IN /\ Len(r.heap) <= MaxParams
          /\ heap' = r.heap
          /\ psets' = [psets EXCEPT ![name] = r.set]
    /\ last' = [op |-> "setitem", set |-> name, bare |-> (key :> v)]
    /\ UNCHANGED ovars

\* receiver.add(key, param), param a Param object
Add(name, key, ref) ==
    /\ name \in DOMAIN psets
    /\ ref \in 1..Len(heap)
    /\ LET r == add(heap, psets[name], key, ParamItem(ref))
       IN /\ heap' = r.heap
          /\ psets' = [psets EXCEPT ![name] = r.set]
    /\ last' = [op |-> "add", set |-> name, bare |-> <<>>]
    /\ UNCHANGED ovars

\* receiver.remove(key)
Remove(name, key) ==
    /\ name \in DOMAIN psets
    /\ psets' = [psets EXCEPT ![name] = remove(@, key)]
    /\ last' = [op |-> "remove", set |-> name, bare |-> <<>>]
    /\ UNCHANGED heap
    /\ UNCHANGED ovars

\* other = receiver.override(**overrides)
Override(overrides) ==
    /\ "receiver" \in DOMAIN psets
    /\ LET r == override(heap, psets["receiver"], Ordered(DOMAIN overrides), overrides)
       IN /\ Len(r.heap) <= MaxParams
          /\ heap' = r.heap
          /\ psets' = [x \in DOMAIN psets \cup {"other"} |->
                          IF x = "other" THEN r.set ELSE psets[x]]
    /\ last' = [op |-> "override", set |-> "other", bare |-> BareOf(overrides)]
    /\ UNCHANGED ovars

\* other = receiver.merge(other, override)
OpsMerge(ov) ==
    /\ {"receiver", "other"} \subseteq DOMAIN psets
    /\ LET r == merge(heap, psets["receiver"], psets["other"], ov)
       IN /\ heap' = r.heap
          /\ psets' = [psets EXCEPT !["other"] = r.set]
    /\ last' = [op |-> "merge", set |-> "other", bare |-> <<>>]
    /\ UNCHANGED ovars

NextOps ==
    \/ \E d \in Values : OpsNewParam(d)
    \/ \E name \in SetNames, strict \in BOOLEAN :
           \E c \in Candidates(heap) : Construct(name, strict, c)
    \/ \E k \in KeySet, v \in Values : SetItem("receiver", k, v)
    \/ \E k \in KeySet, ref \in 1..MaxParams : Add("receiver", k, ref)
    \/ \E k \in KeySet : Remove("receiver", k)
    \/ \E c \in Candidates(heap) : Override(c)
    \/ \E ov \in BOOLEAN : OpsMerge(ov)

SpecOps == InitOps /\ [][NextOps]_vars

(***************************************************************************)
(* MockStateTracker on its own: update_state and get_state are called in   *)
(* any order with any id and any state. Here last also carries the log of  *)
(* the update_state calls made so far.                                     *)
(***************************************************************************)
\* Largest number of update_state calls.
MaxUpdates == 3

\* tracker = MockStateTracker()
InitTracker ==
    /\ InitOrchestratorIdle
    /\ heap = <<>>
    /\ psets = <<>>
    /\ last = [op |-> "none", log |-> <<>>]

\* tracker.update_state(node_id, state)
TrackerUpdate(node_id, state) ==
    /\ Len(last.log) < MaxUpdates
    /\ states' = update_state(states, node_id, state)
    /\ last' = [op |-> "update_state", log |-> Append(last.log, <<node_id, state>>),
                id |-> node_id, res |-> None]
    /\ UNCHANGED <<dependencies, nodes, result, pc, execution_order, idx,
                   invoked, ret, outcomes>>
    /\ UNCHANGED <<heap, psets>>

\* tracker.get_state(node_id)
TrackerGet(node_id) ==
    /\ last' = [op |-> "get_state", log |-> last.log,
                id |-> node_id, res |-> get_state(states, node_id)]
    /\ UNCHANGED ovars
    /\ UNCHANGED <<heap, psets>>

NextTracker ==
    \/ \E n \in Nodes, s \in ExecutionStates : TrackerUpdate(n, s)
    \/ \E n \in Nodes : TrackerGet(n)

SpecTracker == InitTracker /\ [][NextTracker]_vars

(***************************************************************************)
(* Runs over a workflow that owns a ParameterSet (Workflow.params), for a  *)
(* caller that holds a config: SchedulingOrchestrator.execute_workflow,    *)
(* whose signature takes the workflow alone, and Workflow.execute(config). *)
(* Here last carries the config the caller started the run for and the     *)
(* data_provider.save calls made so far.                                   *)
(***************************************************************************)
\* The key every output is saved under.
output_path == "output_path_placeholder"

\* Workflow.execute(config): apply_config comes first and its exception leaves
\* the call. Then, for the first node, the inputs are gathered:
\* computed_results[dep.name] raises KeyError for a declared dependency
\* (nothing is computed yet), and self.params._params raises AttributeError
\* (ParameterSet has no _params; __getattr__ finds no such key). So no
\* node.execute is reached; without nodes the empty mapping is returned.
workflow_execute(h, set, workflow_nodes, deps, config) ==
    LET r == apply_config(h, set, config)
    IN IF r.err /= "ok" THEN [heap |-> h, err |-> r.err]
       ELSE IF workflow_nodes = <<>> THEN [heap |-> r.heap, err |-> "ok"]
       ELSE IF deps[Head(workflow_nodes)] /= {}
            THEN [heap |-> r.heap, err |-> "KeyError"]
            ELSE [heap |-> r.heap, err |-> "AttributeError"]

\* workflow = Workflow(name, params), params built from bare values
InitRun ==
    /\ dependencies \in DepGraphs
    /\ nodes = <<>>
    /\ states = <<>>
    /\ result = [n \in Nodes |-> None]
    /\ pc = "idle"
    /\ execution_order = <<>>
    /\ idx = 0
    /\ invoked = <<>>
    /\ ret = [kind |-> "pending"]
    /\ outcomes = <<>>
    /\ \E K \in SUBSET KeySet :
         \E c \in [K -> {BareItem(v) : v \in Values}] :
            LET r == ParameterSet(<<>>, TRUE, Ordered(K), c)
            IN /\ heap = r.heap
               /\ psets = [params |-> r.set]
    /\ last = [op |-> "none", config |-> <<>>, saves |-> <<>>]

\* The caller, holding config, calls orchestrator.execute_workflow(workflow):
\* the method has no parameter for a config and applies none.
RunBegin(config) ==
    /\ pc \in {"idle", "done", "raised"}
    /\ Len(outcomes) + (IF pc = "idle" THEN 0 ELSE 1) < MaxRuns
    /\ outcomes' = IF pc = "idle" THEN outcomes ELSE Append(outcomes, pc)
    /\ execution_order' = resolve_dependencies(nodes)
    /\ idx' = 1
    /\ invoked' = <<>>
    /\ ret' = [kind |-> "pending"]
    /\ pc' = "loop"
    /\ last' = [last EXCEPT !.op = "execute_workflow", !.config = config]
    /\ UNCHANGED <<dependencies, nodes, states, result>>
    /\ UNCHANGED <<heap, psets>>

\* node.func returns: Node.execute stores the result,
\* data_provider.save("output_path_placeholder", outputs) is called and the
\* node is marked "completed".
RunNodeReturn ==
    /\ pc = "call"
    /\ LET node == execution_order[idx]
           outputs == func(node, load("input_path_placeholder"))
       IN /\ result' = [result EXCEPT ![node] = outputs]
          /\ last' = [last EXCEPT !.saves = Append(@, <<output_path, outputs>>)]
          /\ states' = update_state(states, node, "completed")
    /\ idx' = idx + 1
    /\ pc' = "loop"
    /\ UNCHANGED <<dependencies, nodes, execution_order, invoked, ret, outcomes>>
    /\ UNCHANGED <<heap, psets>>

\* workflow.execute(config)
WorkflowExecute(config) ==
    /\ pc \in {"idle", "done", "raised"}
    /\ Len(outcomes) + (IF pc = "idle" THEN 0 ELSE 1) < MaxRuns
    /\ outcomes' = IF pc = "idle" THEN outcomes ELSE Append(outcomes, pc)
    /\ LET r == workflow_execute(heap, psets["params"], nodes, dependencies, config)
       IN /\ heap' = r.heap
          /\ pc' = IF r.err = "ok" THEN "done" ELSE "raised"
          /\ ret' = IF r.err = "ok" THEN [kind |-> "mapping", map |-> <<>>]
                    ELSE [kind |-> "exception"]
    /\ execution_order' = <<>>
    /\ idx' = 1
    /\ invoked' = <<>>
    /\ last' = [last EXCEPT !.op = "execute", !.config = config]
    /\ UNCHANGED <<dependencies, nodes, states, result>>
    /\ UNCHANGED psets

NextRun ==
    \/ \E n \in Nodes : add_node(n)
    \/ \E c \in Configs : RunBegin(c)
    \/ SkipNode
    \/ CallNode
    \/ RunNodeReturn
    \/ NodeRaise
    \/ ExecuteEnd
    \/ \E c \in Configs : WorkflowExecute(c)

SpecRun == InitRun /\ [][NextRun]_vars

(***************************************************************************)
(* Dependency graph vocabulary used by the properties                      *)
(***************************************************************************)
DepsOf(d, S) == UNION {d[x] : x \in S}

RECURSIVE ReachFrom(_, _, _)
\* The nodes reached from S by following one to k dependency edges.
ReachFrom(d, S, k) ==
    IF k = 0 THEN {}
    ELSE LET T == DepsOf(d, S) IN T \cup ReachFrom(d, T, k - 1)

HasCycle(d, reg) == \E n \in reg : n \in ReachFrom(d, {n}, Cardinality(Nodes))

MissingDependency(d, reg) == \E n \in reg : ~(d[n] \subseteq reg)

\* Every node of the order comes after all of its dependencies.
RespectsDependencies(d, order) ==
    \A k \in 1..Len(order) :
        \A m \in d[order[k]] :
            \E j \in 1..(k - 1) : order[j] = m

LastOutcome == outcomes[Len(outcomes)]

(***************************************************************************)
(* C1: checkpoint/resume. In every step of a run, node n is invoked in     *)
(* that step exactly when the loop has reached n and n's tracked state is  *)
(* not "completed"; and a run that follows a run in which no node failed   *)
(* invokes no node.                                                        *)
(***************************************************************************)
C1_InvokedStep ==
    \A n \in Nodes :
        (invoked' = Append(invoked, n))
            <=> /\ pc = "loop"
                /\ idx <= Len(execution_order)
                /\ execution_order[idx] = n
                /\ get_state(states, n) /= "completed"

C1_RerunInvokesNothing ==
    (outcomes /= <<>> /\ LastOutcome = "done") => invoked = <<>>

\* C1: a node is invoked exactly when the loop reaches it in a state other
\* than "completed", and a run after a run without failure invokes no node.
C1_CheckpointResume ==
    /\ [][C1_InvokedStep]_vars
    /\ []C1_RerunInvokesNothing

\* A->B->C registered in order with A and B found completed: only C was invoked.
C1_Witness ==
    /\ pc = "done"
    /\ outcomes = <<>>
    /\ dependencies = [n \in Nodes |-> IF n = "A" THEN {} ELSE IF n = "B" THEN {"A"} ELSE {"B"}]
    /\ execution_order = <<"A", "B", "C">>
    /\ invoked = <<"C">>

(***************************************************************************)
(* C2: when execute_workflow has returned, the returned value is a mapping *)
(* with an entry for every node of the execution order.                    *)
(***************************************************************************)
C2_ReturnsAllResults ==
    pc = "done" =>
        /\ ret.kind = "mapping"
        /\ \A k \in 1..Len(execution_order) : execution_order[k] \in DOMAIN ret.map

(***************************************************************************)
(* C3: while a node's call is in progress its tracked state is "running",  *)
(* and no step of a run takes a node from "not_started" straight to        *)
(* "completed".                                                            *)
(***************************************************************************)
C3_RunningDuringCall ==
    pc = "call" => get_state(states, execution_order[idx]) = "running"

C3_NoDirectCompletion ==
    pc /= "idle" =>
        \A n \in Nodes :
            get_state(states, n) = "not_started" => get_state(states', n) /= "completed"

\* C3: "running" throughout every call, and never "not_started" straight to
\* "completed".
C3_Lifecycle == []C3_RunningDuringCall /\ [][C3_NoDirectCompletion]_vars

(***************************************************************************)
(* C4: when a run has ended by the failure of a node's call, that node's   *)
(* tracked state is "failed", it is the last node invoked, and every node  *)
(* invoked before it is "completed".                                       *)
(***************************************************************************)
C4_FailureIsFatal ==
    pc = "raised" =>
        /\ get_state(states, execution_order[idx]) = "failed"
        /\ invoked[Len(invoked)] = execution_order[idx]
        /\ \A k \in 1..(Len(invoked) - 1) : get_state(states, invoked[k]) = "completed"

(***************************************************************************)
(* C5: for an acyclic graph whose dependencies are all registered, the     *)
(* order resolve_dependencies returns puts every node after all of its     *)
(* dependencies, whatever the registration order.                          *)
(***************************************************************************)
C5_OrderRespectsDependencies ==
    (~HasCycle(dependencies, Range(nodes)) /\ ~MissingDependency(dependencies, Range(nodes)))
        => RespectsDependencies(dependencies, resolve_dependencies(nodes))

(***************************************************************************)
(* C6: a run over a graph with a cycle or a missing dependency invokes no  *)
(* node and never ends normally.                                           *)
(***************************************************************************)
C6_StructuralErrorIsFatal ==
    (pc /= "idle" /\ (HasCycle(dependencies, Range(nodes)) \/ MissingDependency(dependencies, Range(nodes))))
        => (invoked = <<>> /\ pc /= "done")

(***************************************************************************)
(* C7: a step receiver.apply_config(config), with config values valid for  *)
(* the Params they target, leaves every parameter named by config          *)
(* resolving to the config's value, every other parameter resolving to     *)
(* what it resolved to before, and the set's keys as they were.            *)
(***************************************************************************)
C7_ConfigValid(config) ==
    \A k \in DOMAIN psets["receiver"].data \cap DOMAIN config :
        validate(heap[psets["receiver"].data[k]], config[k]) = "ok"

C7_ApplyConfigStep ==
    (last'.op = "apply_config" /\ C7_ConfigValid(last'.config)) =>
        LET set == psets["receiver"]
            config == last'.config
        IN /\ \A k \in DOMAIN set.data \cap DOMAIN config :
                  get_value(heap'[set.data[k]]) = config[k]
           /\ \A k \in DOMAIN set.data \ DOMAIN config :
                  get_value(heap'[set.data[k]]) = get_value(heap[set.data[k]])
           /\ psets'["receiver"].keys = set.keys
           /\ DOMAIN psets'["receiver"].data = DOMAIN set.data

\* C7: every apply_config step round-trips the config's values and touches
\* nothing else.
C7_ApplyConfigRoundTrip == [][C7_ApplyConfigStep]_vars

(***************************************************************************)
(* C8: after merged = receiver.merge(other, override) the keys of merged   *)
(* are the union of both key sets; with override false every key of the    *)
(* receiver maps to the receiver's entry and every key only in other to    *)
(* other's entry; with override true every key of other maps to other's    *)
(* entry and every key only in the receiver to the receiver's entry.       *)
(* An entry is a Param object, compared by identity.                       *)
(***************************************************************************)
C8_MergeKeySemantics ==
    last.op = "merge" =>
        LET r == psets["receiver"].data
            o == psets["other"].data
            m == psets["merged"].data
        IN /\ DOMAIN m = DOMAIN r \cup DOMAIN o
           /\ Range(psets["merged"].keys) = DOMAIN m
           /\ ~last.override =>
                 /\ \A k \in DOMAIN r : m[k] = r[k]
                 /\ \A k \in DOMAIN o \ DOMAIN r : m[k] = o[k]
           /\ last.override =>
                 /\ \A k \in DOMAIN o : m[k] = o[k]
                 /\ \A k \in DOMAIN r \ DOMAIN o : m[k] = r[k]

\* A merge without override where "a" is held by both sets with different
\* entries and "b" only by other.
C8_Witness ==
    /\ last.op = "merge"
    /\ ~last.override
    /\ "a" \in DOMAIN psets["receiver"].data \cap DOMAIN psets["other"].data
    /\ psets["receiver"].data["a"] /= psets["other"].data["a"]
    /\ "b" \in DOMAIN psets["other"].data \ DOMAIN psets["receiver"].data
    /\ psets["merged"].data["a"] = psets["receiver"].data["a"]

(***************************************************************************)
(* C9: a step merged = receiver.merge(other, override) leaves both input   *)
(* sets and every field of every Param they contain as they were.          *)
(***************************************************************************)
C9_MergeStep ==
    (last'.op = "merge" /\ "merged" \notin DOMAIN psets) =>
        /\ psets'["receiver"] = psets["receiver"]
        /\ psets'["other"] = psets["other"]
        /\ \A name \in {"receiver", "other"} :
               \A k \in DOMAIN psets[name].data :
                   heap'[psets[name].data[k]] = heap[psets[name].data[k]]

\* C9: every merge step leaves its two input sets and their Params unchanged.
C9_MergeNonDestructive == [][C9_MergeStep]_vars

(***************************************************************************)
(* C10: generate_sweep_grid on a set with n >= 1 SweepParams of lengths    *)
(* l1..ln returns l1*...*ln configurations; configuration t gives the i-th *)
(* SweepParam the candidate at the position that cartesian-product order   *)
(* (last SweepParam fastest) assigns to t, so no two configurations pick   *)
(* the same positions; every configuration holds every non-sweep Param's   *)
(* resolved value under its name, and no other key. With no SweepParam the *)
(* call fails.                                                             *)
(***************************************************************************)
RECURSIVE C10_Prod(_, _)
\* The product of the lengths of the sequences from position i on.
C10_Prod(seqs, i) == IF i > Len(seqs) THEN 1 ELSE Len(seqs[i]) * C10_Prod(seqs, i + 1)

\* The position configuration t takes in the i-th candidate sequence.
C10_Pos(seqs, t, i) == (((t - 1) \div C10_Prod(seqs, i + 1)) % Len(seqs[i])) + 1

\* C10: the grid is the cartesian product of the candidate sequences, in order,
\* over the fixed Params' resolved values; without a SweepParam the call fails.
C10_SweepGrid ==
    last.op = "generate_sweep_grid" =>
        LET set == psets["params"]
            sk == SelectSeq(set.keys, LAMBDA k : heap[set.data[k]].kind = "SweepParam")
            cands == [i \in 1..Len(sk) |-> heap[set.data[sk[i]]].values]
            fixed == {k \in DOMAIN set.data : heap[set.data[k]].kind = "Param"}
            grid == last.grid
        IN IF sk = <<>> THEN last.err /= "ok"
           ELSE /\ last.err = "ok"
                /\ Len(grid) = C10_Prod(cands, 1)
                /\ \A t \in 1..Len(grid) :
                      /\ DOMAIN grid[t] = DOMAIN set.data
                      /\ \A i \in 1..Len(sk) :
                            grid[t][sk[i]] = cands[i][C10_Pos(cands, t, i)]
                      /\ \A k \in fixed :
                            grid[t][k] = (IF heap[set.data[k]].value /= None
                                          THEN heap[set.data[k]].value
                                          ELSE heap[set.data[k]].default)
                /\ \A t, u \in 1..Len(grid) :
                      t /= u => \E i \in 1..Len(sk) :
                                    C10_Pos(cands, t, i) /= C10_Pos(cands, u, i)

\* A grid of 2*2 configurations over two SweepParams, listed b before a, and
\* a fixed Param whose value was set to something other than its default.
C10_Witness ==
    /\ last.op = "generate_sweep_grid"
    /\ last.err = "ok"
    /\ Len(last.grid) = 4
    /\ psets["params"].keys = <<"b", "c", "a">>
    /\ heap[psets["params"].data["b"]].values = <<0, 1>>
    /\ heap[psets["params"].data["a"]].values = <<1, 0>>
    /\ heap[psets["params"].data["c"]].kind = "Param"
    /\ heap[psets["params"].data["c"]].default = 0
    /\ heap[psets["params"].data["c"]].value = 1
    /\ last.grid[2] = [a |-> 0, b |-> 0, c |-> 1]

(***************************************************************************)
(* C11: getattr(s, "k1.k2...kn") on nested sets. Walking the segments from *)
(* s through the nested ParameterSets, when the walk ends on a leaf Param  *)
(* at the last segment the call returns that Param's resolved value, and   *)
(* when a segment is missing from the set the walk has reached the call    *)
(* fails.                                                                  *)
(***************************************************************************)
RECURSIVE C11_Walk(_, _, _, _)
\* Where the path leads from set i: to a leaf value, to a nested set, past a
\* leaf, or to a missing segment.
C11_Walk(h, sets, i, keys) ==
    IF Head(keys) \notin DOMAIN sets[i].data THEN [kind |-> "missing", val |-> None]
    ELSE LET p == h[sets[i].data[Head(keys)]]
             v == IF p.value /= None THEN p.value ELSE p.default
         IN IF v < None
            THEN IF Tail(keys) = <<>> THEN [kind |-> "set", val |-> v]
                 ELSE C11_Walk(h, sets, None - v, Tail(keys))
            ELSE IF Tail(keys) = <<>> THEN [kind |-> "leaf", val |-> v]
                 ELSE [kind |-> "pastleaf", val |-> v]

\* C11: a dotted name that leads to a leaf Param returns the leaf's resolved
\* value; a dotted name with a missing segment fails.
C11_DottedRead ==
    last.op = "getattr" =>
        LET w == C11_Walk(heap, psets, last.set, last.keys)
        IN /\ w.kind = "leaf" => (last.err = "ok" /\ last.val = w.val)
           /\ w.kind = "missing" => last.err /= "ok"

(***************************************************************************)
(* C12: p.validate(v) for an integer v, whatever combination of the bounds *)
(* gt, ge, lt, le is set (the satisfiable ones included): the call returns *)
(* true exactly when v > gt, v >= ge, v < lt and v <= le hold for the      *)
(* bounds that are set, and otherwise raises the value error of the first  *)
(* violated bound in the order gt, ge, lt, le.                             *)
(***************************************************************************)
C12_Violated(p, v) ==
    [gt |-> p.gt /= None /\ v <= p.gt,
     ge |-> p.ge /= None /\ v < p.ge,
     lt |-> p.lt /= None /\ v >= p.lt,
     le |-> p.le /= None /\ v > p.le]

\* C12: validate accepts exactly the candidates within all set bounds and
\* otherwise names the first violated bound in the order gt, ge, lt, le.
C12_ValidateBounds ==
    (last.op = "validate" /\ last.value /= None) =>
        LET bad == C12_Violated(heap[1], last.value)
        IN /\ (last.res = "ok") <=> (~bad.gt /\ ~bad.ge /\ ~bad.lt /\ ~bad.le)
           /\ bad.gt => last.res = "ValueError_gt"
           /\ (~bad.gt /\ bad.ge) => last.res = "ValueError_ge"
           /\ (~bad.gt /\ ~bad.ge /\ bad.lt) => last.res = "ValueError_lt"
           /\ (~bad.gt /\ ~bad.ge /\ ~bad.lt /\ bad.le) => last.res = "ValueError_le"

\* The satisfiable bounds ge=1, le=2 with the candidate on the boundary ge,
\* accepted.
C12_Witness ==
    /\ last.op = "validate"
    /\ heap[1].gt = None /\ heap[1].ge = 1 /\ heap[1].lt = None /\ heap[1].le = 2
    /\ last.value = 1
    /\ last.res = "ok"

(***************************************************************************)
(* C13: p.set_value(v). On a strict Param the step stores v exactly when   *)
(* validate accepts v, and when validate fails the step fails with         *)
(* validate's error and leaves the stored value as it was; on a non-strict *)
(* Param the step always stores v. So the value stored in a strict Param   *)
(* that has only been assigned through set_value is unset or satisfies the *)
(* Param's constraints.                                                    *)
(***************************************************************************)
C13_SetValueStep ==
    last'.op = "set_value" =>
        LET p == heap[1]
            v == last'.value
        IN IF p.strict /\ validate(p, v) /= "ok"
           THEN last'.err = validate(p, v) /\ heap'[1] = p
           ELSE last'.err = "ok" /\ heap'[1] = [p EXCEPT !.value = v]

C13_StoredValueValid ==
    (heap[1].strict /\ heap[1].value /= None)
        => validate(heap[1], heap[1].value) = "ok"

\* C13: strict assignment stores exactly the validated candidates; non-strict
\* assignment stores every candidate.
C13_StrictAssignment == [][C13_SetValueStep]_vars /\ []C13_StoredValueValid

\* A strict Param with gt=1 that holds 2 refused the candidate 1.
C13_Witness ==
    /\ last.op = "set_value"
    /\ heap[1].strict
    /\ heap[1].gt = 1
    /\ heap[1].value = 2
    /\ last.value = 1
    /\ last.err = "ValueError_gt"

(***************************************************************************)
(* C14: params.validate(). As stated: the call fails exactly when some     *)
(* registered global validator returns false on the resolved values of its *)
(* targets. As the code has it: the call fails exactly when some           *)
(* registered global validator returns false on the resolved values of its *)
(* targets or names a target the set does not hold. Either way a Param     *)
(* that violates its own constraints is reported and does not make the     *)
(* call fail, and every Param is checked.                                  *)
(***************************************************************************)
C14_TargetsHeld(g) ==
    \A i \in 1..Len(g.targets.names) :
        g.targets.names[i] \in DOMAIN psets["params"].data

C14_ReturnsFalse(g) ==
    /\ C14_TargetsHeld(g)
    /\ LET set == psets["params"]
           vals == [i \in 1..Len(g.targets.names) |->
                       LET p == heap[set.data[g.targets.names[i]]]
                       IN IF p.value /= None THEN p.value ELSE p.default]
       IN IF g.validator = "all_one"
          THEN \E i \in 1..Len(vals) : vals[i] /= 1
          ELSE \E i, j \in 1..Len(vals) : vals[i] /= vals[j]

C15_AllParams ==
    \A name \in DOMAIN psets :
        \A k \in DOMAIN psets[name].data :
            /\ psets[name].data[k] \in 1..Len(heap)
            /\ heap[psets[name].data[k]].kind \in {"Param", "SweepParam"}

C15_BareWrapped ==
    last.op \in {"init", "setitem", "override"} =>
        \A k \in DOMAIN last.bare :
            /\ k \in DOMAIN psets[last.set].data
            /\ LET p == heap[psets[last.set].data[k]]
               IN /\ p.kind = "Param"
                  /\ p.default = last.bare[k]
                  /\ (IF p.value /= None THEN p.value ELSE p.default) = last.bare[k]

\* C15: every stored value is a Param, and a bare value is stored as a Param
\* with that default and that resolved value.
C15_ParamWrapping == C15_AllParams /\ C15_BareWrapped

\* other = receiver.override(a=1) on a receiver that held a Param object
\* under a: the new set holds a new Param of default 1, the receiver its own.
C15_Witness ==
    /\ last.op = "override"
    /\ last.bare = [a |-> 1]
    /\ "a" \in DOMAIN psets["receiver"].data
    /\ psets["other"].data["a"] /= psets["receiver"].data["a"]
    /\ heap[psets["other"].data["a"]].default = 1
    /\ heap[psets["receiver"].data["a"]].default = 0

(***************************************************************************)
(* C19: in every state reached by construction, add, item assignment,      *)
(* override and merge on sets of either strictness, every Param held by a  *)
(* set has the strict flag of that set, and the set that override or merge *)
(* returned has the strict flag of the receiver.                           *)
(***************************************************************************)
C19_StrictConsistency ==
    /\ \A name \in DOMAIN psets :
           \A k \in DOMAIN psets[name].data :
               heap[psets[name].data[k]].strict = psets[name].strict
    /\ last.op \in {"override", "merge"} =>
           psets["other"].strict = psets["receiver"].strict

(***************************************************************************)
(* C16: the tracker is a last-write map. After any sequence of             *)
(* update_state calls, with any states in any order, get_state(id) returns *)
(* the state of the most recent update_state call for that id, and         *)
(* "not_started" for an id never updated; a get_state step leaves the      *)
(* tracker as it was, and an update_state step leaves the state of every   *)
(* other id as it was.                                                     *)
(***************************************************************************)
\* The state of the latest entry of the log for id n, "not_started" without one.
C16_MostRecent(log, n) ==
    LET at == {i \in 1..Len(log) : log[i][1] = n}
    IN IF at = {} THEN "not_started"
       ELSE log[CHOOSE i \in at : \A j \in at : j <= i][2]

C16_ReadsLastWrite ==
    /\ last.op = "get_state" => last.res = C16_MostRecent(last.log, last.id)
    /\ \A n \in Nodes : get_state(states, n) = C16_MostRecent(last.log, n)

C16_StepFrame ==
    /\ last'.op = "get_state" => states' = states
    /\ last'.op = "update_state" =>
           \A n \in Nodes \ {last'.id} : get_state(states', n) = get_state(states, n)

\* C16: get_state reads the last write or "not_started", changes nothing, and
\* update_state touches its own id only.
C16_LastWriteMap == []C16_ReadsLastWrite /\ [][C16_StepFrame]_vars

\* A was written "completed", then B "failed", then A "not_started" again, a
\* transition no lifecycle allows; get_state(A) returns "not_started".
C16_Witness ==
    /\ last.op = "get_state"
    /\ last.log = << <<"A", "completed">>, <<"B", "failed">>, <<"A", "not_started">> >>
    /\ last.id = "A"
    /\ last.res = "not_started"
    /\ states["A"] = "not_started"

C18_Held(saves, key) ==
    LET at == {i \in 1..Len(saves) : saves[i][1] = key}
    IN IF at = {} THEN <<>>
       ELSE saves[CHOOSE i \in at : \A j \in at : j <= i][2]

C18_CompletedImpliesPersisted ==
    \A n \in Nodes :
        get_state(states, n) = "completed" =>
            \E i \in 1..Len(last.saves) :
                /\ last.saves[i][2] = result[n]
                /\ C18_Held(last.saves, last.saves[i][1]) = result[n]

====
